---- MODULE Spec2Model ----
(***************************************************************************)
(* A model of the presidential-actions feed monitor.                       *)
(*                                                                         *)
(*   src/monitor.js  continuous mode: startScheduler runs processRSS once  *)
(*                   and then on every timer tick; a cycle fetches the     *)
(*                   feed, normalizes it, snapshots the batch, loads the   *)
(*                   store, snapshots it, diffs by title and writes        *)
(*                   newItems ++ existingData when the diff is not empty.  *)
(*                                                                         *)
(* processRSS is an async function: it runs to its next await and then     *)
(* gives the event loop back, so the segments between two awaits are the   *)
(* atomic steps and segments of different cycles interleave.  All file     *)
(* system calls are synchronous, so each one is atomic.                    *)
(*                                                                         *)
(* Strings are abstracted: a title stands for its decoded, trimmed text,   *)
(* a content for its stripped, collapsed and decoded text.                 *)
(***************************************************************************)
EXTENDS Integers, Sequences, FiniteSets, TLC

\* Bounds of the model.
MaxBatch == 2       \* items of one feed document
MaxStore == 2       \* records of the main store before the monitor starts

\* The invocations of processRSS the model follows: the one startScheduler
\* makes itself and the one the first tick of the interval makes.
Cycles == {1, 2}

\* Titles and contents stand for normalized text.
Titles == {"A", "B"}
Contents == {"text"}

\* The values of pubDate: one that Date parses and one that it does not.
ValidPubDate == "Tue, 01 Jan 2024 12:00:00 GMT"
InvalidPubDate == "not a date"

\* monitor.js:8-10
outputFilePath == "actions/presidentialActions.json"
existingDataPath == "actions/existingData.json"
newDataPath == "actions/newData.json"
Paths == {outputFilePath, existingDataPath, newDataPath}

SeqsUpTo(S, n) == UNION {[1..k -> S] : k \in 0..n}

\* A normalized record and a raw feed item.
Records == [title : Titles, date : {"2024-01-01T12:00:00.000Z"}, content : Contents]
\* The raw items whose date parses, and one whose date does not: every item
\* with a bad date ends the cycle the same way, at items.map.
BadDateItem == [title |-> "A", pubDate |-> InvalidPubDate, content |-> "text"]
RawItems ==
    [title : Titles, pubDate : {ValidPubDate}, content : Contents] \cup {BadDateItem}

\* What a file holds: nothing (no such file), text that is not JSON (a torn
\* or foreign file), or the JSON text of an array of records.
Absent == [kind |-> "absent", data |-> <<>>]
Corrupt == [kind |-> "corrupt", data |-> <<>>]
Json(data) == [kind |-> "json", data |-> data]

\* What axios.get resolves to: a document that is not a feed, or a feed with
\* its items (a channel without item elements has items undefined).
Garbage == [kind |-> "garbage", items |-> <<>>]
Rss(items) == [kind |-> "rss", items |-> items]
NoXml == [kind |-> "undefined", items |-> <<>>]
Payloads == {Garbage} \cup {Rss(items) : items \in SeqsUpTo(RawItems, MaxBatch)}

VARIABLES
    dirExists,      \* the directory actions/ exists
    fs,             \* path -> what the file holds
    timer,          \* setInterval has registered the tick
    ncycles,        \* invocations of processRSS so far
    unhandled,      \* a rejection escaped processRSS
    pc,             \* cycle -> the stage it is at
    failed,         \* cycle -> the catch of processRSS ran
    loadError,      \* cycle -> the catch of loadExistingData ran
    xmlData,        \* cycle -> local xmlData
    newData,        \* cycle -> local newData
    existingData,   \* cycle -> local existingData
    newItems,       \* cycle -> local newItems
    updatedData     \* cycle -> local updatedData

files == <<dirExists, fs>>
locals == <<xmlData, newData, existingData, newItems, updatedData>>
vars == <<dirExists, fs, timer, ncycles, unhandled, pc, failed, loadError,
          xmlData, newData, existingData, newItems, updatedData>>

\* pc: "idle", then the stage the cycle is at or failed at ("fetch", "normalize",
\* "snapshotNew", "load", "merge"), then "done".
InFlight(c) == pc[c] \notin {"idle", "done"} /\ ~failed[c]
Succeeded(c) == pc[c] = "done"
Terminal(c) == pc[c] = "done" \/ failed[c]

----------------------------------------------------------------------------
\* new Date(s).toISOString(): throws a RangeError on an invalid date.
DateParses(s) == s = ValidPubDate
toISOString(s) == "2024-01-01T12:00:00.000Z"

\* parseAndSanitizeRSS: parseStringPromise rejects what is not XML, .rss or
\* .item of undefined throws, items.map throws on the first bad date.
ParseSucceeds(xml) ==
    /\ xml.kind = "rss"
    /\ xml.items # <<>>
    /\ \A i \in 1..Len(xml.items) : DateParses(xml.items[i].pubDate)

\* A slip: every record takes the title of the first item.
parseWithFirstTitle(xml) ==
    [i \in 1..Len(xml.items) |->
        [title |-> xml.items[1].title,
         date |-> toISOString(xml.items[i].pubDate),
         content |-> xml.items[i].content]]

parseAndSanitizeRSS(xml) ==
    [i \in 1..Len(xml.items) |->
        [title |-> xml.items[i].title,
         date |-> toISOString(xml.items[i].pubDate),
         content |-> xml.items[i].content]]

\* A slip: no existsSync, so a missing file is a read error like any other.
loadWithoutExistsSync(filePath, readOk) ==
    IF readOk /\ fs[filePath].kind = "json"
    THEN [data |-> fs[filePath].data, error |-> FALSE]
    ELSE [data |-> <<>>, error |-> TRUE]

\* A slip: a read that throws is tried again, and the error only logged.
loadWithSecondRead(filePath, readOk) ==
    IF fs[filePath].kind = "json"
    THEN [data |-> fs[filePath].data, error |-> ~readOk]
    ELSE [data |-> <<>>, error |-> fs[filePath].kind # "absent"]

\* loadExistingData: [] when the file does not exist; the parsed array when it
\* reads and parses; [] with an error logged when readFileSync or JSON.parse
\* throws.  readOk: readFileSync does not throw.
loadExistingData(filePath, readOk) ==
    IF fs[filePath].kind = "absent"
    THEN [data |-> <<>>, error |-> FALSE]
    ELSE IF readOk /\ fs[filePath].kind = "json"
         THEN [data |-> fs[filePath].data, error |-> FALSE]
         ELSE [data |-> <<>>, error |-> TRUE]

\* saveJSONToFile: how the file system calls end.
\*   ok          mkdirSync (if needed) and writeFileSync succeed
\*   mkdirFails  mkdirSync throws: nothing is written
\*   openFails   writeFileSync throws before truncating the file
\*   writeFails  writeFileSync throws after truncating it: a torn file
SaveOutcomes == {"ok", "mkdirFails", "openFails", "writeFails"}

saveJSONToFile(data, filePath, outcome) ==
    /\ outcome = "mkdirFails" => ~dirExists
    /\ dirExists' = (dirExists \/ outcome # "mkdirFails")
    /\ fs' = CASE outcome = "ok" -> [fs EXCEPT ![filePath] = Json(data)]
               [] outcome = "writeFails" -> [fs EXCEPT ![filePath] = Corrupt]
               [] OTHER -> fs

\* findNewItems: the items of newData whose title is not in the set of the
\* titles of existingData.
existingTitles(existing) == {existing[i].title : i \in 1..Len(existing)}

\* A slip: the set holds the records, not their titles.
NotExistingRecord(existing, item) ==
    item \notin {existing[i] : i \in 1..Len(existing)}

NotExisting(existing, item) == item.title \notin existingTitles(existing)

\* A slip: nothing is filtered out of the batch.
findAllItems(existing, incoming) == incoming

findNewItems(existing, incoming) ==
    LET keep(item) == NotExisting(existing, item)
    IN SelectSeq(incoming, keep)

\* A slip: the new records are appended.
MergeAppended(new, existing) == existing \o new

\* A slip that is the cure of the race: the store is read again at the write.
MergeOntoCurrentStore(new, existing) ==
    new \o (IF fs[outputFilePath].kind = "json" THEN fs[outputFilePath].data ELSE <<>>)

\* [...newItems, ...existingData]
Merge(new, existing) == new \o existing

----------------------------------------------------------------------------
\* A slip: the catch throws the error again.
CatchAndRethrow(c) ==
    /\ failed' = [failed EXCEPT ![c] = TRUE]
    /\ unhandled' = TRUE
    /\ UNCHANGED pc

\* A slip: an error sends the cycle back to its fetch.
CatchAndRetry(c) ==
    /\ pc' = [pc EXCEPT ![c] = "fetch"]
    /\ UNCHANGED <<failed, unhandled>>

\* The catch of processRSS: the error is logged and the promise resolves.
CatchError(c) ==
    /\ failed' = [failed EXCEPT ![c] = TRUE]
    /\ UNCHANGED <<pc, unhandled>>

Advance(c, stage) ==
    /\ pc' = [pc EXCEPT ![c] = stage]
    /\ UNCHANGED <<failed, unhandled>>

\* processRSS up to the await of axios.get.
StartCycle(c) ==
    /\ pc[c] = "idle"
    /\ pc' = [pc EXCEPT ![c] = "fetch"]
    /\ ncycles' = c
    /\ UNCHANGED <<files, unhandled, failed, loadError, locals>>

\* startScheduler: run processRSS, then register the interval.
StartScheduler ==
    /\ ~timer
    /\ StartCycle(1)
    /\ timer' = TRUE

\* A scheduler that holds the tick back while a cycle is in flight.
TickWhenIdle ==
    /\ timer
    /\ ~unhandled
    /\ \A c \in Cycles : ~InFlight(c)
    /\ ncycles + 1 \in Cycles
    /\ StartCycle(ncycles + 1)
    /\ UNCHANGED timer

\* The interval fires: it runs processRSS whatever the earlier cycles did.
Tick ==
    /\ timer
    /\ ~unhandled
    /\ ncycles + 1 \in Cycles
    /\ StartCycle(ncycles + 1)
    /\ UNCHANGED timer

\* fetchRSSFeed settles: the document, or an error that is logged and thrown.
Fetch(c) ==
    /\ pc[c] = "fetch" /\ ~failed[c]
    /\ \/ \E payload \in Payloads :
            /\ xmlData' = [xmlData EXCEPT ![c] = payload]
            /\ Advance(c, "normalize")
       \/ /\ CatchError(c)
          /\ UNCHANGED xmlData
    /\ UNCHANGED <<files, timer, ncycles, loadError, newData, existingData,
                   newItems, updatedData>>

\* A slip: the raw document is snapshot before it is parsed.
NormalizeAfterSnapshot(c) ==
    /\ pc[c] = "normalize" /\ ~failed[c]
    /\ saveJSONToFile(<<>>, newDataPath, "ok")
    /\ IF ParseSucceeds(xmlData[c])
       THEN /\ newData' = [newData EXCEPT ![c] = parseAndSanitizeRSS(xmlData[c])]
            /\ Advance(c, "snapshotNew")
       ELSE /\ CatchError(c)
            /\ UNCHANGED newData
    /\ UNCHANGED <<timer, ncycles, loadError, xmlData, existingData,
                   newItems, updatedData>>

\* parseAndSanitizeRSS settles.
Normalize(c) ==
    /\ pc[c] = "normalize" /\ ~failed[c]
    /\ IF ParseSucceeds(xmlData[c])
       THEN /\ newData' = [newData EXCEPT ![c] = parseAndSanitizeRSS(xmlData[c])]
            /\ Advance(c, "snapshotNew")
       ELSE /\ CatchError(c)
            /\ UNCHANGED newData
    /\ UNCHANGED <<files, timer, ncycles, loadError, xmlData, existingData,
                   newItems, updatedData>>

\* A slip: the cycle goes on to load the store whatever the save did.
SnapshotNewUnchecked(c) ==
    /\ pc[c] = "snapshotNew" /\ ~failed[c]
    /\ \E outcome \in SaveOutcomes :
        /\ saveJSONToFile(newData[c], newDataPath, outcome)
        /\ Advance(c, "load")
    /\ UNCHANGED <<timer, ncycles, loadError, locals>>

\* monitor.js:99-102: the batch goes to newData.json.
SnapshotNew(c) ==
    /\ pc[c] = "snapshotNew" /\ ~failed[c]
    /\ \E outcome \in SaveOutcomes :
        /\ saveJSONToFile(newData[c], newDataPath, outcome)
        /\ IF outcome = "ok" THEN Advance(c, "load") ELSE CatchError(c)
    /\ UNCHANGED <<timer, ncycles, loadError, locals>>

\* A slip: the cycle goes on to the diff whatever the save did.
LoadExistingUnchecked(c) ==
    /\ pc[c] = "load" /\ ~failed[c]
    /\ \E readOk \in BOOLEAN, outcome \in SaveOutcomes :
        LET loaded == loadExistingData(outputFilePath, readOk) IN
        /\ existingData' = [existingData EXCEPT ![c] = loaded.data]
        /\ loadError' = [loadError EXCEPT ![c] = loaded.error]
        /\ saveJSONToFile(loaded.data, existingDataPath, outcome)
        /\ Advance(c, "merge")
    /\ UNCHANGED <<timer, ncycles, xmlData, newData, newItems, updatedData>>

\* monitor.js:103-110: the store is loaded and goes to existingData.json.
LoadExisting(c) ==
    /\ pc[c] = "load" /\ ~failed[c]
    /\ \E readOk \in BOOLEAN, outcome \in SaveOutcomes :
        LET loaded == loadExistingData(outputFilePath, readOk) IN
        /\ existingData' = [existingData EXCEPT ![c] = loaded.data]
        /\ loadError' = [loadError EXCEPT ![c] = loaded.error]
        /\ saveJSONToFile(loaded.data, existingDataPath, outcome)
        /\ IF outcome = "ok" THEN Advance(c, "merge") ELSE CatchError(c)
    /\ UNCHANGED <<timer, ncycles, xmlData, newData, newItems, updatedData>>

\* A slip: the store is written whether or not the diff is empty.
MergeAndPersistAlways(c) ==
    /\ pc[c] = "merge" /\ ~failed[c]
    /\ LET found == findNewItems(existingData[c], newData[c]) IN
        /\ newItems' = [newItems EXCEPT ![c] = found]
        /\ updatedData' = [updatedData EXCEPT ![c] = Merge(found, existingData[c])]
        /\ \E outcome \in SaveOutcomes :
            /\ saveJSONToFile(Merge(found, existingData[c]), outputFilePath, outcome)
            /\ IF outcome = "ok" THEN Advance(c, "done") ELSE CatchError(c)
    /\ UNCHANGED <<timer, ncycles, loadError, xmlData, newData, existingData>>

\* monitor.js:111-123: the diff, and the write of the store when it is not empty.
MergeAndPersist(c) ==
    /\ pc[c] = "merge" /\ ~failed[c]
    /\ LET found == findNewItems(existingData[c], newData[c]) IN
        /\ newItems' = [newItems EXCEPT ![c] = found]
        /\ IF Len(found) > 0
           THEN /\ updatedData' = [updatedData EXCEPT ![c] = Merge(found, existingData[c])]
                /\ \E outcome \in SaveOutcomes :
                    /\ saveJSONToFile(Merge(found, existingData[c]), outputFilePath, outcome)
                    /\ IF outcome = "ok" THEN Advance(c, "done") ELSE CatchError(c)
           ELSE /\ Advance(c, "done")
                /\ UNCHANGED <<files, updatedData>>
    /\ UNCHANGED <<timer, ncycles, loadError, xmlData, newData, existingData>>

----------------------------------------------------------------------------
\* A record stored by an earlier run, before the feed changed its content.
EarlierRecord ==
    [title |-> "A", date |-> "2024-01-01T12:00:00.000Z", content |-> "earlier text"]
StoreRecords == Records \cup {EarlierRecord}

\* The store before the monitor starts: no file, a torn file, or the array an
\* earlier run wrote (the monitor never writes an empty array).
InitStores ==
    {Absent, Corrupt} \cup {Json(s) : s \in SeqsUpTo(StoreRecords, MaxStore) \ {<<>>}}

Init ==
    /\ dirExists \in BOOLEAN
    /\ fs \in [Paths -> InitStores]
    /\ ~dirExists => fs[outputFilePath] = Absent
    /\ fs[newDataPath] = Absent
    /\ fs[existingDataPath] = Absent
    /\ timer = FALSE
    /\ ncycles = 0
    /\ unhandled = FALSE
    /\ pc = [c \in Cycles |-> "idle"]
    /\ failed = [c \in Cycles |-> FALSE]
    /\ loadError = [c \in Cycles |-> FALSE]
    /\ xmlData = [c \in Cycles |-> NoXml]
    /\ newData = [c \in Cycles |-> <<>>]
    /\ existingData = [c \in Cycles |-> <<>>]
    /\ newItems = [c \in Cycles |-> <<>>]
    /\ updatedData = [c \in Cycles |-> <<>>]

Next ==
    \/ StartScheduler
    \/ Tick
    \/ \E c \in Cycles : Fetch(c)
    \/ \E c \in Cycles : Normalize(c)
    \/ \E c \in Cycles : SnapshotNew(c)
    \/ \E c \in Cycles : LoadExisting(c)
    \/ \E c \in Cycles : MergeAndPersist(c)

Spec == Init /\ [][Next]_vars

\* Every promise a cycle awaits settles (axios.get, parseStringPromise, the
\* async saves): an activation that can take its next step takes it.
StagesSettle ==
    \A c \in Cycles :
        /\ WF_vars(Fetch(c))
        /\ WF_vars(Normalize(c))
        /\ WF_vars(SnapshotNew(c))
        /\ WF_vars(LoadExisting(c))
        /\ WF_vars(MergeAndPersist(c))

SpecFair == Spec /\ StagesSettle

----------------------------------------------------------------------------
\* Cycles one after the other: the tick comes when no cycle is in flight.
TickSerial ==
    /\ \A c \in Cycles : ~InFlight(c)
    /\ Tick

NextSerial ==
    \/ StartScheduler
    \/ TickSerial
    \/ \E c \in Cycles : Fetch(c)
    \/ \E c \in Cycles : Normalize(c)
    \/ \E c \in Cycles : SnapshotNew(c)
    \/ \E c \in Cycles : LoadExisting(c)
    \/ \E c \in Cycles : MergeAndPersist(c)

SpecSerial == Init /\ [][NextSerial]_vars

----------------------------------------------------------------------------
\* findNewItems on its own: every existing snapshot and every incoming batch,
\* with records that differ in the fields other than the title.
DiffContents == {"text", "other text"}
DiffRecords == [title : Titles, date : {"2024-01-01T12:00:00.000Z"}, content : DiffContents]

InitDiff ==
    /\ dirExists = TRUE
    /\ fs = [p \in Paths |-> Absent]
    /\ timer = TRUE
    /\ ncycles = 1
    /\ unhandled = FALSE
    /\ pc = [c \in Cycles |-> IF c = 1 THEN "merge" ELSE "idle"]
    /\ failed = [c \in Cycles |-> FALSE]
    /\ loadError = [c \in Cycles |-> FALSE]
    /\ xmlData = [c \in Cycles |-> NoXml]
    /\ \E incoming \in SeqsUpTo(DiffRecords, MaxBatch) :
            newData = [c \in Cycles |-> IF c = 1 THEN incoming ELSE <<>>]
    /\ \E existing \in SeqsUpTo(DiffRecords, MaxStore) :
            existingData = [c \in Cycles |-> IF c = 1 THEN existing ELSE <<>>]
    /\ newItems = [c \in Cycles |-> <<>>]
    /\ updatedData = [c \in Cycles |-> <<>>]

\* monitor.js:114: const newItems = findNewItems(existingData, newData)
Diff(c) ==
    /\ pc[c] = "merge" /\ ~failed[c]
    /\ newItems' = [newItems EXCEPT ![c] = findNewItems(existingData[c], newData[c])]
    /\ Advance(c, "done")
    /\ UNCHANGED <<files, timer, ncycles, loadError, xmlData, newData,
                   existingData, updatedData>>

NextDiff == \E c \in Cycles : Diff(c)

SpecDiff == InitDiff /\ [][NextDiff]_vars

----------------------------------------------------------------------------
\* One-shot mode, src/index.js: processRSS is called once (line 72), with no
\* timer.  Its fetchRSSFeed, parseAndSanitizeRSS and saveJSONToFile are the
\* functions of monitor.js without the logger, and its output file is the
\* main store of the monitor.  The run is activation 1; newData[1] is
\* sanitizedData.  pc[1] goes "idle", "fetch", "normalize", "save", "done".
OneShot == 1

\* The audit files are there only when the monitor has run before.
AuditStores == {Absent, Corrupt, Json(<<EarlierRecord>>)}

InitOneShot ==
    /\ dirExists \in BOOLEAN
    /\ fs \in [Paths -> InitStores \cup AuditStores]
    /\ fs[outputFilePath] \in InitStores
    /\ fs[newDataPath] \in AuditStores
    /\ fs[existingDataPath] \in AuditStores
    /\ ~dirExists => \A f \in Paths : fs[f] = Absent
    /\ timer = FALSE
    /\ ncycles = 0
    /\ unhandled = FALSE
    /\ pc = [c \in Cycles |-> "idle"]
    /\ failed = [c \in Cycles |-> FALSE]
    /\ loadError = [c \in Cycles |-> FALSE]
    /\ xmlData = [c \in Cycles |-> NoXml]
    /\ newData = [c \in Cycles |-> <<>>]
    /\ existingData = [c \in Cycles |-> <<>>]
    /\ newItems = [c \in Cycles |-> <<>>]
    /\ updatedData = [c \in Cycles |-> <<>>]

\* index.js:72, to the await of axios.get.
OneShotStart ==
    /\ ncycles = 0
    /\ StartCycle(OneShot)
    /\ UNCHANGED timer

\* index.js:56, fetchRSSFeed settles.
OneShotFetch ==
    /\ pc[OneShot] = "fetch" /\ ~failed[OneShot]
    /\ \/ \E payload \in Payloads :
            /\ xmlData' = [xmlData EXCEPT ![OneShot] = payload]
            /\ Advance(OneShot, "normalize")
       \/ /\ CatchError(OneShot)
          /\ UNCHANGED xmlData
    /\ UNCHANGED <<files, timer, ncycles, loadError, newData, existingData,
                   newItems, updatedData>>

\* index.js:59, parseAndSanitizeRSS settles.
OneShotNormalize ==
    /\ pc[OneShot] = "normalize" /\ ~failed[OneShot]
    /\ IF ParseSucceeds(xmlData[OneShot])
       THEN /\ newData' = [newData EXCEPT ![OneShot] = parseAndSanitizeRSS(xmlData[OneShot])]
            /\ Advance(OneShot, "save")
       ELSE /\ CatchError(OneShot)
            /\ UNCHANGED newData
    /\ UNCHANGED <<files, timer, ncycles, loadError, xmlData, existingData,
                   newItems, updatedData>>

\* A slip: the batch is put before what the output file holds.
OneShotSaveMerged ==
    /\ pc[OneShot] = "save" /\ ~failed[OneShot]
    /\ \E outcome \in SaveOutcomes :
        /\ saveJSONToFile(newData[OneShot] \o fs[outputFilePath].data,
                          outputFilePath, outcome)
        /\ IF outcome = "ok" THEN Advance(OneShot, "done") ELSE CatchError(OneShot)
    /\ UNCHANGED <<timer, ncycles, loadError, locals>>

\* index.js:62, the batch goes to the output file.
OneShotSave ==
    /\ pc[OneShot] = "save" /\ ~failed[OneShot]
    /\ \E outcome \in SaveOutcomes :
        /\ saveJSONToFile(newData[OneShot], outputFilePath, outcome)
        /\ IF outcome = "ok" THEN Advance(OneShot, "done") ELSE CatchError(OneShot)
    /\ UNCHANGED <<timer, ncycles, loadError, locals>>

NextOneShot ==
    \/ OneShotStart
    \/ OneShotFetch
    \/ OneShotNormalize
    \/ OneShotSave

SpecOneShot == InitOneShot /\ [][NextOneShot]_vars

----------------------------------------------------------------------------
\* The monitor over a store that starts with no two records of one title (or
\* with no array at all) and a feed none of whose documents has two items of
\* one title.
DistinctItemTitles(xml) ==
    \A i, j \in 1..Len(xml.items) :
        xml.items[i].title = xml.items[j].title => i = j

InitDistinct ==
    /\ Init
    /\ \A i, j \in 1..Len(fs[outputFilePath].data) :
          fs[outputFilePath].data[i].title = fs[outputFilePath].data[j].title => i = j

FetchDistinct(c) ==
    /\ Fetch(c)
    /\ DistinctItemTitles(xmlData'[c])

NextDistinct ==
    \/ StartScheduler
    \/ Tick
    \/ \E c \in Cycles : FetchDistinct(c)
    \/ \E c \in Cycles : Normalize(c)
    \/ \E c \in Cycles : SnapshotNew(c)
    \/ \E c \in Cycles : LoadExisting(c)
    \/ \E c \in Cycles : MergeAndPersist(c)

SpecDistinct == InitDistinct /\ [][NextDistinct]_vars

----------------------------------------------------------------------------
\* What the claims are stated with.

\* The step is one of cycle c.
StepOf(c) == pc'[c] # pc[c] \/ failed'[c] # failed[c]

\* Cycle c runs the segment of stage s.
Runs(c, s) == pc[c] = s /\ ~failed[c] /\ StepOf(c)

TitlesOf(seq) == {seq[i].title : i \in 1..Len(seq)}

DistinctTitles(seq) ==
    \A i, j \in 1..Len(seq) : seq[i].title = seq[j].title => i = j

\* The subsequence of incoming made of the records whose title is the title of
\* no record of existing, by the places they have in incoming.
NewPlaces(existing, incoming) ==
    {i \in 1..Len(incoming) :
        \A j \in 1..Len(existing) : existing[j].title # incoming[i].title}

ExpectedNew(existing, incoming) ==
    LET places == NewPlaces(existing, incoming)
        nth(k) == CHOOSE i \in places : Cardinality({j \in places : j <= i}) = k
    IN [k \in 1..Cardinality(places) |-> incoming[nth(k)]]

\* The records of the store written by cycle c that come from its batch: what
\* stands before the records it loaded.
Contributed(c) ==
    SubSeq(fs'[outputFilePath].data, 1,
           Len(fs'[outputFilePath].data) - Len(existingData[c]))

\* Cycle c ends its merge stage with the store written.
Persists(c) == Runs(c, "merge") /\ pc'[c] = "done" /\ newItems'[c] # <<>>

----------------------------------------------------------------------------
\* C1: when two cycles run one after the other, both reach the end of
\* processRSS and the second has the batch of the first, the diff of the
\* second is empty and no step from the end of the first to the end of the
\* second changes the main store.
C1_DedupIdempotence ==
    [][Succeeded(1) =>
        /\ pc[2] # "merge" => fs'[outputFilePath] = fs[outputFilePath]
        /\ (Runs(2, "merge") /\ pc'[2] = "done" /\ newData[2] = newData[1]) =>
              /\ newItems'[2] = <<>>
              /\ fs'[outputFilePath] = fs[outputFilePath]]_vars

\* C1, when moreover the load of the second cycle raises no error.
C1_DedupIdempotenceWithoutLoadError ==
    [][Succeeded(1) =>
        /\ pc[2] # "merge" => fs'[outputFilePath] = fs[outputFilePath]
        /\ (Runs(2, "merge") /\ pc'[2] = "done" /\ newData[2] = newData[1]
              /\ ~loadError[2]) =>
              /\ newItems'[2] = <<>>
              /\ fs'[outputFilePath] = fs[outputFilePath]]_vars

\* C2: a cycle that ends with a diff that is not empty leaves the store as
\* newItems ++ existingData, newItems being the new records in the order of the
\* batch and existingData the store as the cycle loaded it.
C2_MergeOrder ==
    [][\A c \in Cycles :
        /\ (Runs(c, "load") /\ fs[outputFilePath].kind = "json" /\ ~loadError'[c]) =>
              existingData'[c] = fs[outputFilePath].data
        /\ Persists(c) =>
              /\ newItems'[c] = ExpectedNew(existingData[c], newData[c])
              /\ fs'[outputFilePath] = Json(newItems'[c] \o existingData[c])]_vars

C2_Witness ==
    \E c \in Cycles :
        /\ Succeeded(c)
        /\ Len(newItems[c]) = 1
        /\ Len(existingData[c]) = 2
        /\ existingData[c][1] # existingData[c][2]
        /\ ~loadError[c]
        /\ fs[outputFilePath] = Json(newItems[c] \o existingData[c])
        /\ fs[existingDataPath] = Json(existingData[c])

\* C3 as it is claimed: whatever the batch, no two of the records a cycle
\* contributes to the store it writes have the same title.
C3_NoDuplicateTitles ==
    [][\A c \in Cycles : Persists(c) => DistinctTitles(Contributed(c))]_vars

\* C3 as amended: when no two items of the fetched batch have the same title,
\* no two of the records the cycle contributes to the store have the same title.
C3_NoDuplicateTitlesOfDistinctBatch ==
    [][\A c \in Cycles :
        (Persists(c) /\ DistinctTitles(xmlData[c].items)) =>
            DistinctTitles(Contributed(c))]_vars

C3_Witness ==
    \E c \in Cycles :
        /\ Succeeded(c)
        /\ DistinctTitles(xmlData[c].items)
        /\ Len(newItems[c]) = 2
        /\ fs[outputFilePath] = Json(newItems[c] \o existingData[c])

\* C4: a cycle whose load of the store raised an error does not go on to the
\* diff and the merge.
C4_LoadErrorEndsCycle ==
    \A c \in Cycles : loadError[c] => pc[c] \notin {"merge", "done"}

\* C5: the segments of a cycle up to the end of normalize write no file, so a
\* cycle that fails in fetch or normalize leaves the three files as they were.
C5_FetchAndNormalizeWriteNothing ==
    [][\A c \in Cycles :
        (pc[c] \in {"idle", "fetch", "normalize"} /\ StepOf(c)) =>
            /\ fs' = fs
            /\ dirExists' = dirExists]_vars

C5_Witness ==
    /\ failed[1] /\ pc[1] = "fetch"
    /\ failed[2] /\ pc[2] = "normalize"
    /\ fs[outputFilePath].kind = "json"

\* C6: when two cycles loaded the same store, neither having yet written it,
\* and both wrote it, the store is what one of them wrote from its own load:
\* the records of the other are not merged into it.
C6_LastWriterWins ==
    (/\ Succeeded(1) /\ Succeeded(2)
     /\ newItems[1] # <<>> /\ newItems[2] # <<>>
     /\ ~loadError[1] /\ ~loadError[2]
     /\ existingData[1] = existingData[2]) =>
        \E w \in Cycles : fs[outputFilePath] = Json(newItems[w] \o existingData[w])

\* The lost update: both cycles are done, both wrote the store from the same
\* load, and a record one of them wrote is not in the store.
C6_Witness ==
    /\ Succeeded(1) /\ Succeeded(2)
    /\ ~loadError[1] /\ ~loadError[2]
    /\ existingData[1] = existingData[2]
    /\ \E o \in Cycles : \E i \in 1..Len(newItems[o]) :
          \A j \in 1..Len(fs[outputFilePath].data) :
              fs[outputFilePath].data[j] # newItems[o][i]

\* C7: the first cycle starts with the scheduler, before any tick; no failure
\* leaves processRSS; and after a cycle has failed, at whatever stage, the tick
\* still starts the next cycle.
C7_FailuresNeverStopTheScheduler ==
    /\ ~unhandled
    /\ timer => pc[1] # "idle"
    /\ ~timer => ncycles = 0
    /\ (timer /\ ncycles + 1 \in Cycles /\ \E c \in Cycles : failed[c]) => ENABLED Tick

C7_Witness ==
    /\ failed[1] /\ pc[1] = "load"
    /\ pc[2] = "fetch"
    /\ ncycles = 2

\* C8: while a cycle is in flight the tick is not held back: it starts the next
\* cycle, and the cycle in flight goes on.
C8_TickWhileInFlight ==
    (timer /\ ncycles + 1 \in Cycles /\ \E c \in Cycles : InFlight(c)) => ENABLED Tick

C8_Witness == InFlight(1) /\ InFlight(2)

\* C9: a load that finds no store file gives the empty snapshot and logs no
\* error, and the cycle that then writes the store writes the whole batch, in
\* the order it was fetched.
C9_MissingStore ==
    [][\A c \in Cycles :
        /\ (Runs(c, "load") /\ fs[outputFilePath] = Absent) =>
              existingData'[c] = <<>> /\ ~loadError'[c]
        /\ (Runs(c, "merge") /\ pc'[c] = "done"
              /\ existingData[c] = <<>> /\ ~loadError[c]) =>
              fs'[outputFilePath] = Json(newData[c])]_vars

C9_Witness ==
    /\ Succeeded(1) /\ pc[2] = "idle"
    /\ existingData[1] = <<>> /\ ~loadError[1]
    /\ Len(newData[1]) = 2
    /\ fs[existingDataPath] = Json(<<>>)
    /\ fs[outputFilePath] = Json(newData[1])

\* C10: findNewItems(existing, incoming) is the subsequence of incoming made of
\* the records whose title is the title of no record of existing, in the order
\* of incoming and with its repeated records; an existing snapshot with the
\* same titles and other fields gives the same result.
C10_Diff ==
    pc[1] = "done" =>
        /\ newItems[1] = ExpectedNew(existingData[1], newData[1])
        /\ \A other \in SeqsUpTo(DiffRecords, MaxStore) :
              TitlesOf(other) = TitlesOf(existingData[1]) =>
                  findNewItems(other, newData[1]) = newItems[1]

C10_Witness ==
    /\ pc[1] = "done"
    /\ Len(newData[1]) = 2
    /\ Len(newItems[1]) = 1
    /\ newItems[1][1] = newData[1][2]
    /\ \E j \in 1..Len(existingData[1]) :
          /\ existingData[1][j].title = newData[1][1].title
          /\ existingData[1][j] # newData[1][1]

\* C11: a cycle whose save of newData.json does not leave the batch in the file
\* has failed in that step, and a cycle that fails in that step leaves the main
\* store and existingData.json as they were, has loaded nothing, and takes no
\* later step: the store is neither loaded nor written by it.
C11_FailedSnapshotAborts ==
    [][\A c \in Cycles :
        /\ (Runs(c, "snapshotNew") /\ fs'[newDataPath] # Json(newData[c]))
              => failed'[c]
        /\ (Runs(c, "snapshotNew") /\ failed'[c])
              => /\ pc'[c] = "snapshotNew"
                 /\ fs'[outputFilePath] = fs[outputFilePath]
                 /\ fs'[existingDataPath] = fs[existingDataPath]
                 /\ existingData'[c] = <<>> /\ ~loadError'[c]
        /\ (pc[c] = "snapshotNew" /\ failed[c])
              => /\ ~StepOf(c)
                 /\ existingData'[c] = <<>> /\ updatedData'[c] = <<>>]_vars

\* A cycle failed at the save of newData.json, the store holding records.
C11_Witness ==
    \E c \in Cycles :
        /\ pc[c] = "snapshotNew" /\ failed[c]
        /\ fs[outputFilePath].kind = "json"
        /\ fs[existingDataPath] = Absent

\* C12: when every title of the batch of a cycle is a title of the store it
\* loaded, the merge stage of the cycle finds an empty diff, writes no file
\* and creates no directory, and the cycle ends done. (A batch is never empty:
\* a feed with no item fails in parseAndSanitizeRSS.)
C12_EmptyDiffWritesNothing ==
    [][\A c \in Cycles :
        (Runs(c, "merge") /\ TitlesOf(newData[c]) \subseteq TitlesOf(existingData[c]))
          => /\ newItems'[c] = <<>>
             /\ fs' = fs /\ dirExists' = dirExists
             /\ pc'[c] = "done" /\ ~failed'[c]]_vars

\* A cycle has ended with an empty diff of a batch it did fetch, the store
\* holding what the cycle loaded.
C12_Witness ==
    \E c \in Cycles :
        /\ pc[c] = "done" /\ newItems[c] = <<>> /\ newData[c] # <<>>
        /\ fs[outputFilePath] = Json(existingData[c])

\* C13: a load that meets an error gives the cycle the empty array, as a
\* missing store does, and the cycle goes on when existingData.json is saved;
\* its diff is then its whole batch, which is not empty, and when its write of
\* the store succeeds the store is exactly that batch.
C13_LoadErrorOverwritesStore ==
    [][\A c \in Cycles :
        /\ (Runs(c, "load") /\ loadError'[c])
              => /\ fs[outputFilePath].kind # "absent"
                 /\ existingData'[c] = <<>>
                 /\ fs'[outputFilePath] = fs[outputFilePath]
                 /\ ~failed'[c] => (pc'[c] = "merge" /\ fs'[existingDataPath] = Json(<<>>))
        /\ (Runs(c, "merge") /\ loadError[c])
              => /\ newData[c] # <<>>
                 /\ newItems'[c] = newData[c]
                 /\ ~failed'[c] => (pc'[c] = "done" /\ fs'[outputFilePath] = Json(newData[c]))]_vars

\* A cycle whose load met an error has written its batch as the store, and the
\* other cycle had loaded from the store a record whose title is not in that
\* batch: the record is lost.
C13_Witness ==
    \E c, d \in Cycles :
        /\ loadError[c] /\ pc[c] = "done"
        /\ fs[outputFilePath] = Json(newData[c])
        /\ ~(TitlesOf(existingData[d]) \subseteq TitlesOf(newData[c]))

\* C14: in one-shot mode no step writes newData.json or existingData.json; up
\* to the end of normalize no step writes the output file or makes the
\* directory, and a run that has failed takes no later step, so a run that
\* fails in fetch or normalize leaves the output file as it was; the save
\* that succeeds leaves in the output file exactly the normalized batch of the
\* fetched document, whatever the file held.
C14_OneShotOverwrites ==
    [][/\ fs'[newDataPath] = fs[newDataPath]
       /\ fs'[existingDataPath] = fs[existingDataPath]
       /\ pc[OneShot] \in {"idle", "fetch", "normalize"}
             => (fs'[outputFilePath] = fs[outputFilePath] /\ dirExists' = dirExists)
       /\ failed[OneShot] => ~StepOf(OneShot)
       /\ (Runs(OneShot, "save") /\ pc'[OneShot] = "done")
             => fs'[outputFilePath] = Json(parseAndSanitizeRSS(xmlData[OneShot]))]_vars

\* A run has ended with a batch of more than one record; the output file is
\* the batch, the audit files of an earlier monitor are as they were.
C14_Witness ==
    /\ pc[OneShot] = "done"
    /\ Len(newData[OneShot]) > 1
    /\ fs[outputFilePath] = Json(newData[OneShot])
    /\ fs[newDataPath] = Json(<<EarlierRecord>>)
    /\ fs[existingDataPath] = Corrupt

\* The records of the main store: those of its array, none when there is no
\* file or no array in it.
PriorStore ==
    IF fs[outputFilePath].kind = "json" THEN fs[outputFilePath].data ELSE <<>>

\* C15: when cycles run one after the other, the latest cycle, once it has
\* saved both audit files and until the next cycle starts, has newData.json
\* holding its batch and existingData.json holding what it loaded, whether its
\* diff is empty or not; and before its merge what it loaded is the records
\* of the main store.
C15_AuditFiles ==
    \A c \in Cycles :
        (c = ncycles /\ ~failed[c] /\ pc[c] \in {"merge", "done"})
          => /\ fs[newDataPath] = Json(newData[c])
             /\ fs[existingDataPath] = Json(existingData[c])
             /\ pc[c] = "merge" => existingData[c] = PriorStore

\* The same, for the cycles whose load met no error.
C15_AuditFilesWithoutLoadError ==
    \A c \in Cycles :
        (c = ncycles /\ ~failed[c] /\ pc[c] \in {"merge", "done"} /\ ~loadError[c])
          => /\ fs[newDataPath] = Json(newData[c])
             /\ fs[existingDataPath] = Json(existingData[c])
             /\ pc[c] = "merge" => existingData[c] = PriorStore

\* The stage that follows stage s in processRSS.
StageAfter(s) ==
    CASE s = "idle" -> "fetch"
      [] s = "fetch" -> "normalize"
      [] s = "normalize" -> "snapshotNew"
      [] s = "snapshotNew" -> "load"
      [] s = "load" -> "merge"
      [] OTHER -> "done"

C17_TitlesStayUnique == DistinctTitles(PriorStore)

\* Two cycles overlapped (both loaded the same records and both wrote the
\* store) and the store holds more than one record.
C17_Witness ==
    \E c, d \in Cycles :
        /\ c # d /\ pc[c] = "done" /\ pc[d] = "done"
        /\ newItems[c] # <<>> /\ newItems[d] # <<>>
        /\ existingData[c] = existingData[d] /\ existingData[c] # <<>>
        /\ Len(PriorStore) > 1

\* The records of a are the last records of b, in the same order.
IsSuffix(a, b) ==
    /\ Len(a) <= Len(b)
    /\ SubSeq(b, Len(b) - Len(a) + 1, Len(b)) = a

\* C18: when cycles run one after the other and no load has met an error, no
\* step loses a record of the main store: the records of the store before the
\* step are the last records of the store after it.
C18_MonotoneStore ==
    [][(\A c \in Cycles : ~loadError'[c])
         => IsSuffix(PriorStore, PriorStore')]_vars

\* The same, for the steps that do not leave the store file torn.
C18_MonotoneStoreWithoutTornWrite ==
    [][((\A c \in Cycles : ~loadError'[c]) /\ fs'[outputFilePath].kind # "corrupt")
         => IsSuffix(PriorStore, PriorStore')]_vars

\* No cycle other than c has come to a save yet.
OnlyWriter(c) ==
    \A d \in Cycles \ {c} :
        \/ pc[d] \in {"idle", "fetch", "normalize"}
        \/ pc[d] = "snapshotNew" /\ ~failed[d]

\* C19: a step that changes the main store is the merge step of a cycle, which
\* the cycle reaches only through a snapshotNew step that left its batch in
\* newData.json and then a load step that left what it loaded in
\* existingData.json; a cycle that fails in its load step leaves the main store
\* as it was and takes no later step; a cycle that fails in its merge step
\* leaves both audit files as they were, which is holding its batch and what
\* it loaded when no other cycle has written them.
C19_WriteOrder ==
    [][/\ fs'[outputFilePath] # fs[outputFilePath]
           => \E c \in Cycles : Runs(c, "merge")
       /\ \A c \in Cycles :
           /\ pc'[c] = "merge" /\ pc[c] # "merge"
                 => /\ Runs(c, "load")
                    /\ fs'[existingDataPath] = Json(existingData'[c])
                    /\ fs'[newDataPath] = fs[newDataPath]
           /\ pc'[c] = "load" /\ pc[c] # "load"
                 => /\ Runs(c, "snapshotNew")
                    /\ fs'[newDataPath] = Json(newData[c])
           /\ (Runs(c, "load") /\ failed'[c])
                 => fs'[outputFilePath] = fs[outputFilePath]
           /\ (pc[c] = "load" /\ failed[c]) => ~StepOf(c)
           /\ (Runs(c, "merge") /\ failed'[c])
                 => /\ fs'[newDataPath] = fs[newDataPath]
                    /\ fs'[existingDataPath] = fs[existingDataPath]
                    /\ OnlyWriter(c) => /\ fs'[newDataPath] = Json(newData[c])
                                        /\ fs'[existingDataPath] = Json(existingData[c])]_vars

\* A cycle has failed at its write of the store after the other cycle ended:
\* both audit files hold its data, and it had loaded records.
C19_Witness ==
    \E c, d \in Cycles :
        /\ c # d /\ Terminal(d)
        /\ pc[c] = "merge" /\ failed[c] /\ existingData[c] # <<>>
        /\ fs[newDataPath] = Json(newData[c])
        /\ fs[existingDataPath] = Json(existingData[c])
====
